---- MODULE Spec2Model ----
(***************************************************************************)
(* A model of the fastapi-opinionated starter: the bootstrap of main.py,   *)
(* its lifespan context, the route declarations of the controller modules  *)
(* under app/domains, and the handling of a request from dispatch through  *)
(* the middleware chain to the handler and back.                           *)
(*                                                                         *)
(* The packages fastapi_opinionated, fastapi_opinionated_socket and        *)
(* fastapi_opinionated_eventbus are imported by the sources and are not    *)
(* part of them.  What the model needs of them (route lookup, the chain    *)
(* behind Next.run, the request-scoped State holder, the delivery of an    *)
(* internal event) is written down in the operators of the section         *)
(* "Framework" from the way the sources use them and from the              *)
(* specification's glossary.                                               *)
(***************************************************************************)
EXTENDS Integers, Sequences, FiniteSets, TLC

VARIABLES
    bootPc,       \* position in the module body of main.py
    plugins,      \* plugins handed to App.configurePlugin
    registered,   \* controller modules imported so far, in import order
    routes,       \* the route table, in registration order
    subscribers,  \* <<topic, handler>> pairs registered by OnInternalEvent
    app,          \* the application object of main.py:30-36
    lifePc,       \* position in the lifespan generator of main.py:10-19
    log,          \* what the lifespan generator has printed
    escaped,      \* the exceptions raised in the lifespan generator, and the
                  \* one that left it ("none" if none did)
    reqs,         \* the requests in flight, one per slot
    authState     \* the AuthState attached to each request, or Unset

vars == <<bootPc, plugins, registered, routes, subscribers, app, lifePc, log,
          escaped, reqs, authState>>

bootVars == <<bootPc, plugins, registered, routes, subscribers, app>>
lifeVars == <<lifePc, log, escaped>>
reqVars  == <<reqs, authState>>

-----------------------------------------------------------------------------
(* Bounds of the model *)

\* requests handled concurrently in SpecConc
MaxRequests == 2
\* path values of GET /get_user/{user_id} range over -1 .. MaxUserId
MaxUserId == 1

Slots == 1 .. MaxRequests
UserIds == -1 .. MaxUserId

-----------------------------------------------------------------------------
(* Values *)

Unset == [unset |-> TRUE]
JsonNull == [null |-> TRUE]
NoResponse == [status |-> 0, body |-> JsonNull]

\* the headers of a request: no Referer, or one of two
NoHeaders == <<>>
HeaderSets == {NoHeaders, [Referer |-> "https://a.example/"],
               [Referer |-> "https://b.example/"]}
\* the JSON object bound to the `user` parameter
NoUser == <<>>
UserBodies == {[name |-> "Alice"], [id |-> 7, name |-> "Bob"]}

\* a handler's return value, serialised by the framework as a 200 response
Json(body) == [status |-> 200, body |-> body]
\* fastapi.Response(status_code=500, content="Internal Server Error")
InternalServerError == [status |-> 500, body |-> [content |-> "Internal Server Error"]]
\* no route matches
NotFound == [status |-> 404, body |-> [detail |-> "Not Found"]]

-----------------------------------------------------------------------------
(* The route declarations of the controller modules *)

Route(method, path, handler, chain) ==
    [method |-> method, path |-> path, handler |-> handler, chain |-> chain]

\* Controller(prefix) binds each decorated method under prefix \o path
ControllerRoutes(prefix, decls) ==
    [i \in DOMAIN decls |->
        Route(decls[i][1], prefix \o decls[i][2], decls[i][3], <<>>)]

\* app/domains/class-based/controllers/users.py
UsersController ==
    ControllerRoutes("/users",
        << <<"GET",    "/",               "UsersController.list">>,
           <<"POST",   "/create",         "UsersController.create">>,
           <<"PUT",    "/update",         "UsersController.update">>,
           <<"PATCH",  "/partial_update", "UsersController.partial_update">>,
           <<"DELETE", "/delete",         "UsersController.delete">> >>)

\* app/domains/media/controllers/controller.py
MediaController ==
    ControllerRoutes("/media",
        << <<"GET",    "/",               "MediaController.list">>,
           <<"POST",   "/create",         "MediaController.create">>,
           <<"PUT",    "/update",         "MediaController.update">>,
           <<"PATCH",  "/partial_update", "MediaController.partial_update">>,
           <<"DELETE", "/delete",         "MediaController.delete">> >>)

\* app/domains/user/controller.py
UserController ==
    ControllerRoutes("/users",
        << <<"GET",  "/",       "UserController.list">>,
           <<"POST", "/create", "UserController.create">> >>)

\* app/domains/users/controllers/get_user.py
GetUserController ==
    ControllerRoutes("/get_user",
        << <<"GET", "/{user_id}", "GetUserController.get_user">> >>)

\* app/domains/functional-based/controllers/users.py
FunctionalHyphenRoutes ==
    << Route("GET",  "/users-i",           "functional-based.list_users", <<>>),
       Route("POST", "/users",             "functional-based.create_user[POST]", <<>>),
       Route("GET",  "/users",             "functional-based.create_user[GET]", <<>>),
       Route("GET",  "/emit_socket_event", "functional-based.emit_socket_event", <<>>) >>

\* app/domains/functional_based/controllers/users.py
FunctionalUnderscoreRoutes ==
    << Route("POST", "/users", "functional_based.create_user[POST]",
             <<"hello_world", "AuthMiddleware">>),
       Route("GET",  "/users", "functional_based.create_user[GET]",
             <<"AuthMiddleware">>) >>

Modules == {"class-based", "media", "user", "users", "functional-based",
            "functional_based"}

ModuleRoutes(m) ==
    CASE m = "class-based"      -> UsersController
      [] m = "media"            -> MediaController
      [] m = "user"             -> UserController
      [] m = "users"            -> GetUserController
      [] m = "functional-based" -> FunctionalHyphenRoutes
      [] m = "functional_based" -> FunctionalUnderscoreRoutes

\* OnInternalEvent("user.retrieved") of functional-based/controllers/users.py
ModuleSubscribers(m) ==
    IF m = "functional-based"
    THEN {<<"user.retrieved", "handle_user_retrieved_event">>}
    ELSE {}

-----------------------------------------------------------------------------
(* The handlers' return values *)

\* app/domains/class-based/controllers/users.py
UsersControllerReturn(handler) ==
    CASE handler = "UsersController.list" ->
            [message |-> "List class-based"]
      [] handler = "UsersController.create" ->
            [message |-> "UsersController created successfully"]
      [] handler = "UsersController.update" ->
            [message |-> "UsersController updated successfully"]
      [] handler = "UsersController.partial_update" ->
            [message |-> "UsersController updated successfully"]
      [] handler = "UsersController.delete" ->
            [message |-> "UsersController deleted successfully"]

\* app/domains/media/controllers/controller.py
MediaControllerReturn(handler) ==
    CASE handler = "MediaController.list" ->
            [message |-> "List media"]
      [] handler = "MediaController.create" ->
            [message |-> "MediaController created successfully"]
      [] handler = "MediaController.update" ->
            [message |-> "MediaController updated successfully"]
      [] handler = "MediaController.partial_update" ->
            [message |-> "MediaController updated successfully"]
      [] handler = "MediaController.delete" ->
            [message |-> "MediaController deleted successfully"]

\* app/domains/user/controller.py
UserControllerReturn(handler) ==
    CASE handler = "UserController.list"   -> <<"john", "budi">>
      [] handler = "UserController.create" -> [ok |-> TRUE]

\* app/domains/users/controllers/get_user.py
GetUserReturn(user_id) == [user_id |-> user_id, name |-> "John Doe"]

\* {"id": 3, **user}: a key of user replaces the literal one
HyphenCreateUserReturn(user) == user @@ [id |-> 3]

\* the users list of list_users
ListUsersReturn == << [id |-> 1, name |-> "Alice"], [id |-> 2, name |-> "Bob"] >>

\* get_current_user of functional_based/middlewares/auth.py
get_current_user == [username |-> "test_user"]

\* headers.get("Referer") with the default left out
RefererOfNoDefault(headers) ==
    IF "Referer" \in DOMAIN headers THEN headers["Referer"] ELSE "None"

\* headers.get("Referer", "")
RefererOf(headers) ==
    IF "Referer" \in DOMAIN headers THEN headers["Referer"] ELSE ""

StaticHandlers ==
    {UsersController[i].handler : i \in DOMAIN UsersController}
    \cup {MediaController[i].handler : i \in DOMAIN MediaController}
    \cup {UserController[i].handler : i \in DOMAIN UserController}

StaticReturn(handler) ==
    IF handler \in {UsersController[i].handler : i \in DOMAIN UsersController}
    THEN UsersControllerReturn(handler)
    ELSE IF handler \in {MediaController[i].handler : i \in DOMAIN MediaController}
    THEN MediaControllerReturn(handler)
    ELSE UserControllerReturn(handler)

-----------------------------------------------------------------------------
(* Framework: what the sources rely on from the imported packages *)

\* the first route of the table, in registration order, that matches; 0 if none
Resolve(table, method, path) ==
    LET hits == {i \in DOMAIN table :
                    table[i].method = method /\ table[i].path = path}
    IN IF hits = {} THEN 0
       ELSE CHOOSE i \in hits : \A j \in hits : i <= j

\* State(request, **fields): attach the fields to this request
StateWrite(store, r, fields) == [store EXCEPT ![r] = fields]

\* a request's state ends with the request
StateDiscard(store, r) == [store EXCEPT ![r] = Unset]

\* the plugin behind eventbus_api() / socket_api() has been configured
PluginConfigured(name) == \E p \in plugins : p.plugin = name

-----------------------------------------------------------------------------
(* main.py: the module body *)

NoApp == [created |-> FALSE, lifespan |-> "", middleware |-> <<>>]

\* App.configurePlugin(SocketPlugin(), ...), main.py:21-28
SocketPluginOptions ==
    [plugin |-> "SocketPlugin", async_mode |-> "asgi",
     cors_allowed_origins |-> <<>>, ping_interval |-> 3, ping_timeout |-> 60,
     socketio_path |-> "socket"]

\* app.add_middleware(CORSMiddleware, ...), main.py:31-36
CorsOptions ==
    [middleware |-> "CORSMiddleware", allow_origins |-> <<"*">>,
     allow_methods |-> <<"*">>, allow_headers |-> <<"*">>]

\* the plugins main.py hands to App.configurePlugin before App.create
ConfiguredPlugins == {SocketPluginOptions}

ConfigurePlugins ==
    /\ bootPc = "start"
    /\ plugins' = plugins \cup ConfiguredPlugins
    /\ bootPc' = "configured"
    /\ UNCHANGED <<registered, routes, subscribers, app, lifeVars, reqVars>>

\* App.create imports the controller modules; importing one runs its decorators
ImportModule(m) ==
    /\ bootPc = "configured"
    /\ m \notin {registered[i] : i \in DOMAIN registered}
    /\ registered' = Append(registered, m)
    /\ routes' = routes \o ModuleRoutes(m)
    /\ subscribers' = subscribers \cup ModuleSubscribers(m)
    /\ UNCHANGED <<bootPc, plugins, app, lifeVars, reqVars>>

\* app = App.create(lifespan=lifespan), main.py:30
AppCreate ==
    /\ bootPc = "configured"
    /\ {registered[i] : i \in DOMAIN registered} = Modules
    /\ app' = [created |-> TRUE, lifespan |-> "lifespan", middleware |-> <<>>]
    /\ bootPc' = "created"
    /\ UNCHANGED <<plugins, registered, routes, subscribers, lifeVars, reqVars>>

AddCorsMiddleware ==
    /\ bootPc = "created"
    /\ app' = [app EXCEPT !.middleware = Append(@, CorsOptions)]
    /\ bootPc' = "ready"
    /\ UNCHANGED <<plugins, registered, routes, subscribers, lifeVars, reqVars>>

-----------------------------------------------------------------------------
(* main.py: the lifespan context *)

StartupMessage  == "App is completed initialization."
ShutdownMessage == "App is shutting down..."
LifespanError   == "Lifespan error"

\* the classes an exception thrown into the generator at its yield may have:
\* one that derives from Exception, or one that derives from BaseException
\* only (asyncio.CancelledError, KeyboardInterrupt, SystemExit)
ExceptionKinds == {"Exception", "BaseException"}

\* a bare `except:` in its place
CaughtBare(kind) == TRUE

\* `except Exception` of main.py:18
Caught(kind) == kind = "Exception"

\* the try block up to the yield; a failure of the startup code is an Exception
LifespanStartup ==
    /\ bootPc = "ready"
    /\ lifePc = "init"
    /\ \E fails \in BOOLEAN :
          IF fails
          THEN /\ log' = Append(log, LifespanError)
               /\ lifePc' = "no_yield"
               /\ escaped' = [escaped EXCEPT !.raised = Append(@, <<"startup", "Exception">>)]
          ELSE /\ log' = Append(log, StartupMessage)
               /\ lifePc' = "serving"
               /\ UNCHANGED escaped
    /\ UNCHANGED <<bootVars, reqVars>>

\* an exception thrown into the generator at its yield while the app serves
LifespanThrow ==
    /\ lifePc = "serving"
    /\ \E kind \in ExceptionKinds :
          /\ escaped' = [raised |-> Append(escaped.raised, <<"serving", kind>>),
                         out |-> IF Caught(kind) THEN escaped.out ELSE kind]
          /\ log' = IF Caught(kind) THEN Append(log, LifespanError) ELSE log
    /\ lifePc' = "finished"
    /\ UNCHANGED <<bootVars, reqVars>>

\* serving ends normally: the generator resumes after the yield
LifespanShutdown ==
    /\ lifePc = "serving"
    /\ \E fails \in BOOLEAN :
          IF fails
          THEN /\ log' = Append(log, LifespanError)
               /\ escaped' = [escaped EXCEPT !.raised = Append(@, <<"shutdown", "Exception">>)]
          ELSE /\ log' = Append(log, ShutdownMessage)
               /\ UNCHANGED escaped
    /\ lifePc' = "finished"
    /\ UNCHANGED <<bootVars, reqVars>>

-----------------------------------------------------------------------------
(* A request: from arrival through the chain to the handler and back *)

IdleReq ==
    [pc |-> "idle", method |-> "", path |-> "", user_id |-> 0,
     headers |-> NoHeaders, user |-> NoUser, handler |-> "", chain |-> <<>>,
     stack |-> <<>>, trace |-> <<>>, result |-> NoResponse,
     response |-> NoResponse]

DeclaredLines ==
    UNION {{<<ModuleRoutes(m)[i].method, ModuleRoutes(m)[i].path>> :
                i \in DOMAIN ModuleRoutes(m)} : m \in Modules}

\* the request lines of the model: every declared one, and one that is not
RequestLines == DeclaredLines \cup {<<"DELETE", "/users">>}

\* the body sent with the concurrent requests of SpecConc
ConcBodies == {[name |-> "Alice"]}

\* the two lines of functional_based/controllers/users.py
UsersLines == {<<"POST", "/users">>, <<"GET", "/users">>}

Log(req, event) == [req EXCEPT !.trace = Append(@, event)]

\* Next.run() called from middleware `name`: the caller waits for the rest of
\* the chain, and the next middleware, or the handler after the last, runs
NextRun(req, name) ==
    [Log(req, <<"next", name>>) EXCEPT
        !.stack = Append(@, name),
        !.chain = Tail(@),
        !.pc = IF Tail(req.chain) = <<>> THEN "handler" ELSE "chain"]

Receive(r, lines, users) ==
    /\ lifePc = "serving"
    /\ reqs[r].pc \in {"idle", "done"}
    /\ \E line \in lines :
       \E user_id \in IF line[2] = "/get_user/{user_id}" THEN UserIds ELSE {0} :
       \E headers \in IF line[2] = "/users" THEN HeaderSets ELSE {NoHeaders} :
       \E user \in IF line[2] = "/users" THEN users ELSE {NoUser} :
          reqs' = [reqs EXCEPT ![r] =
                      [IdleReq EXCEPT !.pc = "received", !.method = line[1],
                                      !.path = line[2], !.user_id = user_id,
                                      !.headers = headers, !.user = user]]
    /\ UNCHANGED <<bootVars, lifeVars, authState>>

Dispatch(r) ==
    /\ lifePc = "serving"
    /\ reqs[r].pc = "received"
    /\ LET i == Resolve(routes, reqs[r].method, reqs[r].path)
       IN reqs' = [reqs EXCEPT ![r] =
             IF i = 0
             THEN [@ EXCEPT !.pc = "unwind", !.result = NotFound]
             ELSE [@ EXCEPT !.handler = routes[i].handler,
                            !.chain = routes[i].chain,
                            !.pc = IF routes[i].chain = <<>> THEN "handler"
                                   ELSE "chain"]]
    /\ UNCHANGED <<bootVars, lifeVars, authState>>

\* hello_world with the Abort(401, ...) of hello.py:8-9 in force
hello_world_abort(r) ==
    /\ lifePc = "serving"
    /\ reqs[r].pc = "chain"
    /\ Head(reqs[r].chain) = "hello_world"
    /\ reqs' = [reqs EXCEPT ![r] =
                   [Log(@, <<"enter", "hello_world">>) EXCEPT
                       !.pc = "unwind",
                       !.result = [status |-> 401,
                                   body |-> [detail |-> "Aborted from HelloWorld Middleware"]]]]
    /\ UNCHANGED <<bootVars, lifeVars, authState>>

\* functional_based/middlewares/hello.py
hello_world(r) ==
    /\ lifePc = "serving"
    /\ reqs[r].pc = "chain"
    /\ Head(reqs[r].chain) = "hello_world"
    /\ reqs' = [reqs EXCEPT ![r] =
                   NextRun(Log(@, <<"enter", "hello_world">>), "hello_world")]
    /\ UNCHANGED <<bootVars, lifeVars, authState>>

\* AuthMiddleware without the AuthState(request, ...) of auth.py:17
AuthMiddlewareNoState(r) ==
    /\ lifePc = "serving"
    /\ reqs[r].pc = "chain"
    /\ Head(reqs[r].chain) = "AuthMiddleware"
    /\ reqs' = [reqs EXCEPT ![r] =
                   NextRun(Log(@, <<"enter", "AuthMiddleware">>), "AuthMiddleware")]
    /\ UNCHANGED <<bootVars, lifeVars, authState>>

\* AuthMiddleware keeping the user and referer in one holder for all requests
AuthMiddlewareShared(r) ==
    /\ lifePc = "serving"
    /\ reqs[r].pc = "chain"
    /\ Head(reqs[r].chain) = "AuthMiddleware"
    /\ authState' = [s \in Slots |->
                        [current_user |-> get_current_user,
                         referer |-> RefererOf(reqs[r].headers)]]
    /\ reqs' = [reqs EXCEPT ![r] =
                   NextRun(Log(@, <<"enter", "AuthMiddleware">>), "AuthMiddleware")]
    /\ UNCHANGED <<bootVars, lifeVars>>

\* functional_based/middlewares/auth.py
AuthMiddleware(r) ==
    /\ lifePc = "serving"
    /\ reqs[r].pc = "chain"
    /\ Head(reqs[r].chain) = "AuthMiddleware"
    /\ LET current_user == get_current_user
           referer == RefererOf(reqs[r].headers)
       IN authState' = StateWrite(authState, r,
                          [current_user |-> current_user, referer |-> referer])
    /\ reqs' = [reqs EXCEPT ![r] =
                   NextRun(Log(@, <<"enter", "AuthMiddleware">>), "AuthMiddleware")]
    /\ UNCHANGED <<bootVars, lifeVars>>

\* `return await Next.run()`: the innermost waiting middleware returns what
\* the rest of the chain returned
MiddlewareReturn(r) ==
    /\ lifePc = "serving"
    /\ reqs[r].pc = "unwind"
    /\ reqs[r].stack # <<>>
    /\ LET n == Len(reqs[r].stack)
       IN reqs' = [reqs EXCEPT ![r] =
             [Log(@, <<"return", reqs[r].stack[n]>>) EXCEPT
                 !.stack = SubSeq(@, 1, n - 1)]]
    /\ UNCHANGED <<bootVars, lifeVars, authState>>

\* the response leaves; the request and what is attached to it end
Complete(r) ==
    /\ lifePc = "serving"
    /\ reqs[r].pc = "unwind"
    /\ reqs[r].stack = <<>>
    /\ reqs' = [reqs EXCEPT ![r] = [@ EXCEPT !.pc = "done",
                                             !.response = reqs[r].result]]
    /\ authState' = StateDiscard(authState, r)
    /\ UNCHANGED <<bootVars, lifeVars>>

Return(req, result) ==
    [Log(req, <<"enter", "handler">>) EXCEPT !.pc = "unwind", !.result = result]

-----------------------------------------------------------------------------
(* The handlers *)

AtHandler(r, handlers) ==
    /\ lifePc = "serving"
    /\ reqs[r].pc = "handler"
    /\ reqs[r].handler \in handlers

\* the methods of UsersController, MediaController and UserController
StaticHandler(r) ==
    /\ AtHandler(r, StaticHandlers)
    /\ reqs' = [reqs EXCEPT ![r] = Return(@, Json(StaticReturn(reqs[r].handler)))]
    /\ UNCHANGED <<bootVars, lifeVars, authState>>

\* GetUserController.get_user
GetUser(r) ==
    /\ AtHandler(r, {"GetUserController.get_user"})
    /\ reqs' = [reqs EXCEPT ![r] = Return(@, Json(GetUserReturn(reqs[r].user_id)))]
    /\ UNCHANGED <<bootVars, lifeVars, authState>>

\* the two create_user of functional-based/controllers/users.py
HyphenCreateUser(r) ==
    /\ AtHandler(r, {"functional-based.create_user[POST]",
                     "functional-based.create_user[GET]"})
    /\ reqs' = [reqs EXCEPT ![r] = Return(@, Json(HyphenCreateUserReturn(reqs[r].user)))]
    /\ UNCHANGED <<bootVars, lifeVars, authState>>

\* what eventbus_api().emit does when EventBusPlugin was never configured is
\* not decided by the sources: the call raises, or the event goes nowhere
UnconfiguredOutcomes == {"raises", "dropped"}

\* list_users up to the end of `await eventbus_api().emit(...)`: with the
\* plugin configured the event is delivered to every subscriber of its topic
ListUsersEmit(r) ==
    /\ AtHandler(r, {"functional-based.list_users"})
    /\ LET topic == "user.retrieved"
           user_id == 1
           entered == Log(reqs[r], <<"enter", "handler">>)
           emitted == Log(entered, <<"emit", topic, user_id>>)
           handlers == {s \in subscribers : s[1] = topic}
       IN IF PluginConfigured("EventBusPlugin")
          THEN reqs' = [reqs EXCEPT ![r] =
                  [(IF handlers = {} THEN emitted
                    ELSE Log(emitted, <<"handle", "handle_user_retrieved_event", user_id>>))
                   EXCEPT !.pc = "emitted"]]
          ELSE \E outcome \in UnconfiguredOutcomes :
                  reqs' = [reqs EXCEPT ![r] =
                     IF outcome = "raises"
                     THEN [entered EXCEPT !.pc = "unwind",
                                          !.result = InternalServerError]
                     ELSE [emitted EXCEPT !.pc = "emitted"]]
    /\ UNCHANGED <<bootVars, lifeVars, authState>>

\* list_users after the await: `return users`
ListUsersReturnUsers(r) ==
    /\ lifePc = "serving"
    /\ reqs[r].pc = "emitted"
    /\ reqs' = [reqs EXCEPT ![r] = [@ EXCEPT !.pc = "unwind",
                                             !.result = Json(ListUsersReturn)]]
    /\ UNCHANGED <<bootVars, lifeVars, authState>>

\* emit_socket_event: the emit goes to the configured socket plugin; the
\* function returns None
EmitSocketEvent(r) ==
    /\ AtHandler(r, {"functional-based.emit_socket_event"})
    /\ reqs' = [reqs EXCEPT ![r] =
          IF PluginConfigured("SocketPlugin")
          THEN Return(Log(@, <<"socket_emit", "custom_event">>), Json(JsonNull))
          ELSE Return(@, InternalServerError)]
    /\ UNCHANGED <<bootVars, lifeVars, authState>>

\* an except branch that answers with the payload all the same
OnExceptionPayload(result) == Json(result)

\* the except branch of both create_user of functional_based
OnException(result) == InternalServerError

\* the try block of a create_user of functional_based: AuthState(request) and
\* the reads of its fields raise when nothing was attached to the request, and
\* may raise for a reason of the holder's own (`raises`)
\* (`payload` is the dictionary the try block builds from the state's fields)
TryAuthState(r, raises, payload) ==
    LET unset == authState[r] = Unset
        read  == Log(reqs[r], <<"read", IF unset THEN "unset" ELSE "set">>)
    IN IF raises \/ unset
       THEN Return(Log(read, <<"raise", "try">>), OnException(payload))
       ELSE Return(read, Json(payload))

\* POST /users of functional_based/controllers/users.py
CreateUserPost(r) ==
    /\ AtHandler(r, {"functional_based.create_user[POST]"})
    /\ \E raises \in BOOLEAN :
          LET state == authState[r]
              payload == [id |-> 1, user |-> reqs[r].user,
                          current_user |-> state.current_user,
                          referer |-> state.referer]
          IN reqs' = [reqs EXCEPT ![r] = TryAuthState(r, raises, payload)]
    /\ UNCHANGED <<bootVars, lifeVars, authState>>

\* GET /users of functional_based/controllers/users.py
CreateUserGet(r) ==
    /\ AtHandler(r, {"functional_based.create_user[GET]"})
    /\ \E raises \in BOOLEAN :
          LET state == authState[r]
              payload == [id |-> 3, user |-> state.current_user,
                          referer |-> state.referer]
          IN reqs' = [reqs EXCEPT ![r] = TryAuthState(r, raises, payload)]
    /\ UNCHANGED <<bootVars, lifeVars, authState>>

-----------------------------------------------------------------------------
(* Specifications *)

Init ==
    /\ bootPc = "start"
    /\ plugins = {}
    /\ registered = <<>>
    /\ routes = <<>>
    /\ subscribers = {}
    /\ app = NoApp
    /\ lifePc = "init"
    /\ log = <<>>
    /\ escaped = [raised |-> <<>>, out |-> "none"]
    /\ reqs = [r \in Slots |-> IdleReq]
    /\ authState = [r \in Slots |-> Unset]

Boot ==
    \/ ConfigurePlugins
    \/ \E m \in Modules : ImportModule(m)
    \/ AppCreate
    \/ AddCorsMiddleware

Lifespan ==
    \/ LifespanStartup
    \/ LifespanThrow
    \/ LifespanShutdown

Chain(r) ==
    \/ Dispatch(r)
    \/ hello_world(r)
    \/ AuthMiddleware(r)
    \/ MiddlewareReturn(r)
    \/ Complete(r)
    \/ CreateUserPost(r)
    \/ CreateUserGet(r)
    \/ HyphenCreateUser(r)

Handlers(r) ==
    \/ StaticHandler(r)
    \/ GetUser(r)
    \/ ListUsersEmit(r)
    \/ ListUsersReturnUsers(r)
    \/ EmitSocketEvent(r)

\* the whole program, one request at a time
Next ==
    \/ Boot
    \/ Lifespan
    \/ Receive(1, RequestLines, UserBodies)
    \/ Chain(1)
    \/ Handlers(1)

Spec == Init /\ [][Next]_vars

\* the import orders of the two modules that declare POST /users and GET /users
ConcOrders ==
    { <<"class-based", "media", "user", "users", "functional-based", "functional_based">>,
      <<"class-based", "media", "user", "users", "functional_based", "functional-based">> }

RECURSIVE RoutesOf(_)
RoutesOf(order) ==
    IF order = <<>> THEN <<>>
    ELSE ModuleRoutes(Head(order)) \o RoutesOf(Tail(order))

\* the application serving, as Spec leaves it after its bootstrap
InitConc ==
    /\ bootPc = "ready"
    /\ plugins = ConfiguredPlugins
    /\ registered \in ConcOrders
    /\ routes = RoutesOf(registered)
    /\ subscribers = UNION {ModuleSubscribers(m) : m \in Modules}
    /\ app = [created |-> TRUE, lifespan |-> "lifespan", middleware |-> <<CorsOptions>>]
    /\ lifePc = "serving"
    /\ log = <<StartupMessage>>
    /\ escaped = [raised |-> <<>>, out |-> "none"]
    /\ reqs = [r \in Slots |-> IdleReq]
    /\ authState = [r \in Slots |-> Unset]

\* concurrent requests to POST /users and GET /users, interleaved step by step
NextConc ==
    \E r \in Slots :
        \/ Receive(r, UsersLines, ConcBodies)
        \/ Chain(r)

SpecConc == InitConc /\ [][NextConc]_vars

-----------------------------------------------------------------------------
(* Helpers of the properties *)

Range(seq) == {seq[i] : i \in DOMAIN seq}
Count(seq, x) == Cardinality({i \in DOMAIN seq : seq[i] = x})

UnderscoreHandlers ==
    {"functional_based.create_user[POST]", "functional_based.create_user[GET]"}

IsEnter(event) == event[1] = "enter"
\* the steps of a request, in the order they were entered
Entered(req) ==
    LET es == SelectSeq(req.trace, IsEnter) IN [i \in DOMAIN es |-> es[i][2]]

\* the middlewares declared for a handler, and the handler last
Declared(handler) ==
    IF handler = "functional_based.create_user[POST]"
    THEN <<"hello_world", "AuthMiddleware", "handler">>
    ELSE <<"AuthMiddleware", "handler">>

IsPrefix(s, t) == Len(s) <= Len(t) /\ s = SubSeq(t, 1, Len(s))

\* a request that has been answered successfully by a create_user of
\* functional_based
Answered(r) ==
    /\ reqs[r].pc = "done"
    /\ reqs[r].handler \in UnderscoreHandlers
    /\ reqs[r].response.status = 200

-----------------------------------------------------------------------------
(* Properties *)

\* C1: when the try block of a create_user of functional_based raises, the
\* handler returns the fixed 500 response, "Internal Server Error", and that
\* is the response of the request: nothing of the success payload is returned.
C1_ErrorWrapped ==
    \A r \in Slots :
        (reqs[r].handler \in UnderscoreHandlers
            /\ <<"raise", "try">> \in Range(reqs[r].trace))
        => /\ reqs[r].pc \in {"unwind", "done"}
           /\ reqs[r].result = [status |-> 500,
                                body |-> [content |-> "Internal Server Error"]]
           /\ reqs[r].pc = "done" => reqs[r].response = reqs[r].result

C1_Witness ==
    \E r \in Slots :
        /\ reqs[r].pc = "done"
        /\ reqs[r].handler \in UnderscoreHandlers
        /\ <<"raise", "try">> \in Range(reqs[r].trace)
        /\ reqs[r].response.status = 500

\* C2: a create_user of functional_based reads the AuthState of its request
\* only after AuthMiddleware has run for that request and attached both
\* fields to it.
C2_SetBeforeRead ==
    \A r \in Slots :
        /\ \A i \in DOMAIN reqs[r].trace :
              reqs[r].trace[i][1] = "read"
              => /\ reqs[r].trace[i] = <<"read", "set">>
                 /\ \E j \in 1 .. (i - 1) :
                       reqs[r].trace[j] = <<"enter", "AuthMiddleware">>
        /\ (reqs[r].pc = "handler" /\ reqs[r].handler \in UnderscoreHandlers)
           => /\ authState[r] # Unset
              /\ DOMAIN authState[r] = {"current_user", "referer"}

C2_Witness ==
    \E r \in Slots :
        /\ reqs[r].handler \in UnderscoreHandlers
        /\ <<"read", "set">> \in Range(reqs[r].trace)

\* C3: the AuthState of a request belongs to that request alone: while it
\* exists the request is in flight and it holds the referer of that request's
\* own headers, it is gone once the request has completed, and a successful
\* response carries the referer of its own request.
C3_RequestScoped ==
    \A r \in Slots :
        /\ authState[r] # Unset
           => /\ reqs[r].pc \in {"chain", "handler", "unwind"}
              /\ authState[r].referer = RefererOf(reqs[r].headers)
        /\ reqs[r].pc \in {"idle", "received", "done"} => authState[r] = Unset
        /\ Answered(r)
           => reqs[r].response.body.referer = RefererOf(reqs[r].headers)

C3_Witness ==
    \E r1, r2 \in Slots :
        /\ r1 # r2
        /\ Answered(r1)
        /\ authState[r2] # Unset
        /\ authState[r2].referer # reqs[r1].response.body.referer
        /\ reqs[r2].pc = "unwind"
        /\ reqs[r2].result.status = 200

\* C4: the steps of a request to a create_user of functional_based are
\* entered in the declared order (hello_world, AuthMiddleware, handler for
\* POST /users; AuthMiddleware, handler for GET /users), each middleware calls
\* Next.run exactly once and returns once, the handler is reached, and the
\* response is what the handler returned.
C4_ChainOrder ==
    \A r \in Slots :
        reqs[r].handler \in UnderscoreHandlers
        => /\ IsPrefix(Entered(reqs[r]), Declared(reqs[r].handler))
           /\ \A m \in {"hello_world", "AuthMiddleware"} :
                 /\ Count(reqs[r].trace, <<"next", m>>)
                       = Count(reqs[r].trace, <<"enter", m>>)
                 /\ Count(reqs[r].trace, <<"next", m>>) <= 1
                 /\ reqs[r].pc = "done"
                    => Count(reqs[r].trace, <<"return", m>>)
                          = Count(reqs[r].trace, <<"next", m>>)
           /\ reqs[r].pc \in {"unwind", "done"}
              => /\ Entered(reqs[r]) = Declared(reqs[r].handler)
                 /\ reqs[r].result.status \in {200, 500}
           /\ reqs[r].pc = "done" => reqs[r].response = reqs[r].result

C4_Witness ==
    \E r \in Slots :
        /\ reqs[r].pc = "done"
        /\ reqs[r].handler = "functional_based.create_user[POST]"
        /\ Entered(reqs[r]) = <<"hello_world", "AuthMiddleware", "handler">>
        /\ Count(reqs[r].trace, <<"return", "hello_world">>) = 1

\* C10: a successful response of a create_user of functional_based carries
\* the Referer header of its request, or "" when the request has none, and
\* the user {"username": "test_user"} of get_current_user (as current_user
\* for POST /users, as user for GET /users).
C10_RefererDefault ==
    \A r \in Slots :
        Answered(r)
        => LET body == reqs[r].response.body
               headers == reqs[r].headers
           IN /\ "Referer" \in DOMAIN headers => body.referer = headers["Referer"]
              /\ "Referer" \notin DOMAIN headers => body.referer = ""
              /\ reqs[r].method = "POST"
                 => body.current_user = [username |-> "test_user"]
              /\ reqs[r].method = "GET"
                 => body.user = [username |-> "test_user"]

C10_Witness ==
    \E r1, r2 \in Slots :
        /\ Answered(r1) /\ Answered(r2)
        /\ "Referer" \notin DOMAIN reqs[r1].headers
        /\ reqs[r1].response.body.referer = ""
        /\ "Referer" \in DOMAIN reqs[r2].headers
        /\ reqs[r2].response.body.referer = "https://b.example/"

\* C5: once main.py has run, SocketPlugin and EventBusPlugin have both been
\* configured, before App.create, and the CORS middleware with wildcard
\* origins, methods and headers has been added.
C5_BootstrapWired ==
    /\ app.created
       => /\ \E p \in plugins : p.plugin = "SocketPlugin"
          /\ \E p \in plugins : p.plugin = "EventBusPlugin"
    /\ bootPc = "ready"
       => \E i \in DOMAIN app.middleware :
             /\ app.middleware[i].middleware = "CORSMiddleware"
             /\ app.middleware[i].allow_origins = <<"*">>
             /\ app.middleware[i].allow_methods = <<"*">>
             /\ app.middleware[i].allow_headers = <<"*">>

\* C6: a request answered by list_users has emitted user.retrieved exactly
\* once, with user_id 1, before its response, the two-user list;
\* handle_user_retrieved_event has been invoked with that user_id, and is
\* never invoked without an emit before it.
C6_EmitOnce ==
    \A r \in Slots :
        LET trace == reqs[r].trace
        IN /\ \A i \in DOMAIN trace :
                 trace[i][1] = "handle"
                 => /\ trace[i] = <<"handle", "handle_user_retrieved_event", 1>>
                    /\ \E j \in 1 .. (i - 1) : trace[j] = <<"emit", "user.retrieved", 1>>
           /\ (reqs[r].pc = "done" /\ reqs[r].handler = "functional-based.list_users")
              => /\ Count(trace, <<"emit", "user.retrieved", 1>>) = 1
                 /\ Count(trace, <<"handle", "handle_user_retrieved_event", 1>>) = 1
                 /\ reqs[r].response =
                       [status |-> 200,
                        body |-> << [id |-> 1, name |-> "Alice"],
                                    [id |-> 2, name |-> "Bob"] >>]

\* the literal a listed route is documented to return
Documented(method, path, user_id) ==
    CASE <<method, path>> = <<"GET", "/users/">> ->
            [message |-> "List class-based"]
      [] <<method, path>> = <<"POST", "/users/create">> ->
            [message |-> "UsersController created successfully"]
      [] <<method, path>> = <<"PUT", "/users/update">> ->
            [message |-> "UsersController updated successfully"]
      [] <<method, path>> = <<"PATCH", "/users/partial_update">> ->
            [message |-> "UsersController updated successfully"]
      [] <<method, path>> = <<"DELETE", "/users/delete">> ->
            [message |-> "UsersController deleted successfully"]
      [] <<method, path>> = <<"GET", "/media/">> ->
            [message |-> "List media"]
      [] <<method, path>> = <<"POST", "/media/create">> ->
            [message |-> "MediaController created successfully"]
      [] <<method, path>> = <<"PUT", "/media/update">> ->
            [message |-> "MediaController updated successfully"]
      [] <<method, path>> = <<"PATCH", "/media/partial_update">> ->
            [message |-> "MediaController updated successfully"]
      [] <<method, path>> = <<"DELETE", "/media/delete">> ->
            [message |-> "MediaController deleted successfully"]
      [] <<method, path>> = <<"GET", "/get_user/{user_id}">> ->
            [user_id |-> user_id, name |-> "John Doe"]

ListedLines ==
    {<<"GET", "/users/">>, <<"POST", "/users/create">>, <<"PUT", "/users/update">>,
     <<"PATCH", "/users/partial_update">>, <<"DELETE", "/users/delete">>,
     <<"GET", "/media/">>, <<"POST", "/media/create">>, <<"PUT", "/media/update">>,
     <<"PATCH", "/media/partial_update">>, <<"DELETE", "/media/delete">>,
     <<"GET", "/get_user/{user_id}">>}

\* C8: a request to a listed route of UsersController, MediaController or
\* GetUserController is answered 200 with the route's documented literal.
C8_LiteralPayloads ==
    \A r \in Slots :
        (reqs[r].pc = "done" /\ <<reqs[r].method, reqs[r].path>> \in ListedLines)
        => reqs[r].response =
              [status |-> 200,
               body |-> Documented(reqs[r].method, reqs[r].path, reqs[r].user_id)]

\* C9: no two entries of the route table have the same method and path.
C9_UniqueRoutes ==
    \A i, j \in DOMAIN routes :
        (routes[i].method = routes[j].method /\ routes[i].path = routes[j].path)
        => i = j

====
